---- MODULE Spec2Model ----
(***************************************************************************)
(* FloorPoV recording core: the process-wide RecordingState, the           *)
(* start_recording / stop_recording commands, the session thread           *)
(* (spawn_ffmpeg_recording_task), the segment runner with its encoder      *)
(* child and audio workers, and the segment finalizer.                     *)
(***************************************************************************)
EXTENDS Integers, Sequences, FiniteSets, TLC

(* ---------------------------- bounds ----------------------------------- *)
MaxSessions == 2
MaxStartCalls == 2
MaxStopCalls == 2
MaxSegments == 3
MaxQueueLen == 2
MaxChunks == 4
chunk_size_bytes == 2
MaxPacketBytes == 3
MaxLen == 2
MaxU32 == 15
MaxCoord == 2

(* ------------------------ program constants ---------------------------- *)
MaxConsecutiveFailures == 3

Sessions == 1..MaxSessions
StartCalls == 1..MaxStartCalls
StopCalls == 1..MaxStopCalls

NoSession == 0

CaptureInputs == {"Monitor", "Window"}
Availabilities == {"Available", "Minimized", "Closed"}
FileStates == {"absent", "empty", "nonempty"}

VARIABLES
    shell,          \* what the UI shell does: the commands it issues, the settings it passes
    state,          \* RecordingState
    session_count,  \* number of sessions registered so far
    start_call,     \* start_recording invocations
    stop_call,      \* stop_recording invocations
    stop_chan,      \* per session: messages buffered in the stop channel
    session,        \* per session: the session thread's locals
    segment,        \* per session: the running segment (poll loop state, child)
    audio,          \* per session: the audio workers of the running segment
    files,          \* per session: final output file, workspace directory
    events,         \* per session: what the UI shell has received
    history,        \* per session: bookkeeping of stop_recording effects
    pipeline,       \* the audio queue of one segment, its workers and counters
    lookup,         \* one call of resolve_capture_input
    geometry        \* one call of a function that computes capture dimensions

vars == <<shell, state, session_count, start_call, stop_call, stop_chan,
          session, segment, audio, files, events, history, pipeline, lookup,
          geometry>>

\* the variables of the recording commands and sessions
recording_vars == <<state, session_count, start_call, stop_call, stop_chan,
                    session, segment, audio, files, events, history>>

(* ------------------------- RecordingState ------------------------------ *)
RecordingStateNew ==
    [is_recording |-> FALSE, is_stopping |-> FALSE,
     current_output_path |-> NoSession, stop_tx |-> NoSession]

SessionNew ==
    [pc |-> "none", capture_input |-> "Monitor", include_system_audio |-> FALSE,
     use_exclusive_window_capture |-> TRUE,
     runtime_capture_mode |-> "Monitor", has_workspace |-> FALSE,
     segment_index |-> 0, segment_paths |-> <<>>,
     consecutive_segment_failures |-> 0,
     valid_segment_paths |-> <<>>, finalize_attempt |-> 0,
     finalize_result |-> "none"]

SegmentNew ==
    [child |-> "none", exit_ok |-> FALSE, out_file |-> "absent",
     stop_requested_at |-> FALSE, kill_sent |-> FALSE, force_killed |-> FALSE,
     stop_requested_by_user |-> FALSE, requested_transition |-> "none",
     active_window_warning |-> "none", wait_failed |-> FALSE,
     kill_attempts |-> 0,
     stdin |-> "piped", stdin_writes |-> 0,
     stop_requests |-> 0, stop_requested_at_call |-> 0,
     spawned_after_stop |-> FALSE, first_poll_missed_stop |-> FALSE]

AudioNew ==
    [capture |-> "none", capture_stop |-> FALSE, device |-> "ok",
     writer |-> "none", writer_stop |-> FALSE]

FilesNew ==
    [final_file |-> "absent", workspace |-> "none", cleanup_attempted |-> FALSE]

EventsNew ==
    [last_event |-> "none", stopped |-> 0, finalized |-> 0, fallback_warnings |-> 0]

\* bookkeeping: the effects of stop_recording, and what a watcher of the
\* availability probes and of the warning events has seen
HistoryNew ==
    [stop_signals_sent |-> 0, stop_state_changes |-> 0,
     stop_sent_while_running |-> FALSE, child_awaited |-> "none",
     children_after_stop |-> 0,
     kill_attempts |-> 0, force_killed |-> FALSE,
     transition |-> "none", next_mode |-> "none",
     unavailable_probed |-> FALSE,
     observed |-> "Available", changed |-> FALSE, emitted |-> FALSE,
     duplicate_emission |-> FALSE, missed_change |-> FALSE,
     cleared_pending |-> FALSE, warning_after_cleared |-> FALSE]

StartCallNew == [pc |-> "idle", epoch |-> -1, session |-> NoSession]
StopCallNew ==
    [pc |-> "idle", during |-> NoSession, held |-> NoSession, result |-> "none",
     path |-> NoSession]

\* AudioPipelineStats and the sync_channel of a segment before its workers
\* run
PipelineNew ==
    [capture |-> "none", writer |-> "none", queue |-> <<>>, sample_queue |-> 0,
     queued_chunks |-> 0, dropped_chunks |-> 0, dequeued_chunks |-> 0,
     write_timeouts |-> 0, written_chunks |-> 0, write_error |-> FALSE]

LookupNew == [pc |-> "idle"]

GeometryNew == [pc |-> "idle"]

InitRecording ==
    /\ state = RecordingStateNew
    /\ session_count = 0
    /\ start_call = [c \in StartCalls |-> StartCallNew]
    /\ stop_call = [k \in StopCalls |-> StopCallNew]
    /\ stop_chan = [s \in Sessions |-> 0]
    /\ session = [s \in Sessions |-> SessionNew]
    /\ segment = [s \in Sessions |-> SegmentNew]
    /\ audio = [s \in Sessions |-> AudioNew]
    /\ files = [s \in Sessions |-> FilesNew]
    /\ events = [s \in Sessions |-> EventsNew]
    /\ history = [s \in Sessions |-> HistoryNew]

InitProgram ==
    /\ pipeline = PipelineNew
    /\ geometry = GeometryNew
    /\ lookup = LookupNew
    /\ InitRecording

\* one recording of any settings, started once and stopped at most once
Init ==
    /\ InitProgram
    /\ shell = [starts |-> 1, stops |-> 1, watches_warnings |-> FALSE,
                capture_sources |-> CaptureInputs, system_audio |-> BOOLEAN,
                fingerprints |-> {FALSE}]

\* concurrent and repeated commands around monitor recordings without audio
InitCommands ==
    /\ InitProgram
    /\ shell = [starts |-> MaxStartCalls, stops |-> MaxStopCalls,
                watches_warnings |-> FALSE,
                capture_sources |-> {"Monitor"}, system_audio |-> {FALSE},
                fingerprints |-> {FALSE}]

\* one window recording without system audio, stopped at most once, whose
\* availability probes and warning events are watched
InitWarnings ==
    /\ InitProgram
    /\ shell = [starts |-> 1, stops |-> 1, watches_warnings |-> TRUE,
                capture_sources |-> {"Window"}, system_audio |-> {FALSE},
                fingerprints |-> {FALSE}]

(* ----------------------------- helpers --------------------------------- *)
AlreadyInProgress == state.is_recording \/ state.is_stopping

\* the session thread is alive from thread::spawn until its closure returns
ThreadAlive(s) == session[s].pc \notin {"none", "done"}

\* a Sender of session s's stop channel is alive while RecordingState or a
\* stop_recording call holds it
SenderAlive(s) ==
    \/ state.stop_tx = s
    \/ \E k \in StopCalls : stop_call[k].held = s

\* the UI shell sees lifecycle events and warnings
Emit(ev, kind) ==
    [ev EXCEPT !.last_event = kind,
               !.stopped = IF kind = "stopped" THEN @ + 1 ELSE @,
               !.finalized = IF kind = "finalized" THEN @ + 1 ELSE @,
               !.fallback_warnings = IF kind = "fallback_warning" THEN @ + 1 ELSE @]

(* ------------------------ resolve_capture_input ----------------------- *)
\* strings are sequences of characters; Option<T> is <<>> or <<value>>
None == <<>>

Some(v) == <<v>>

HandleChars == {" ", "0", "1"}

TitleChars == {" ", "a", "b"}

Strings(chars) == UNION {[1..n -> chars] : n \in 0..MaxLen}

\* the order-preserving subsequences of v, as sequences
RECURSIVE SubSequences(_)
SubSequences(v) ==
    IF v = <<>> THEN {<<>>}
    ELSE LET rest == SubSequences(Tail(v))
         IN rest \cup {<<Head(v)>> \o r : r \in rest}

\* str::trim
RECURSIVE TrimStart(_)
TrimStart(v) ==
    IF v # <<>> /\ Head(v) = " " THEN TrimStart(Tail(v)) ELSE v

RECURSIVE TrimEnd(_)
TrimEnd(v) ==
    IF v # <<>> /\ v[Len(v)] = " " THEN TrimEnd(SubSeq(v, 1, Len(v) - 1)) ELSE v

Trim(v) == TrimEnd(TrimStart(v))

\* normalize_optional_setting: the trimmed value, None when it is empty
normalize_optional_settingUntrimmed(value) ==
    IF value = None \/ value[1] = <<>> THEN None ELSE value

normalize_optional_setting(value) ==
    IF value = None \/ Trim(value[1]) = <<>> THEN None ELSE Some(Trim(value[1]))

\* str::parse::<usize> of a string of decimal digits
RECURSIVE ParseUsize(_)
ParseUsize(v) ==
    IF v = <<>> THEN 0
    ELSE 10 * ParseUsize(SubSeq(v, 1, Len(v) - 1))
           + (IF v[Len(v)] = "1" THEN 1 ELSE 0)

\* parse_window_handle: a non-zero usize, or None
parse_window_handle(raw_hwnd) ==
    LET v == Trim(raw_hwnd)
    IN  IF v # <<>> /\ (\A i \in 1..Len(v) : v[i] \in {"0", "1"}) /\ ParseUsize(v) # 0
        THEN Some(ParseUsize(v)) ELSE None

\* what list_capture_windows_internal can return: the windows that exist, in
\* the order of their titles, then handles
CaptureWindows ==
    <<[hwnd |-> <<"1">>, title |-> <<"a">>],
      [hwnd |-> <<"1", "1">>, title |-> <<"a">>],
      [hwnd |-> <<"1", "0">>, title |-> <<"b">>]>>

\* Iterator::find on the window list: the index of the first match, 0 if none
FindByTitle(available_windows, title) ==
    LET hits == {i \in 1..Len(available_windows) : available_windows[i].title = title}
    IN  IF hits = {} THEN 0 ELSE CHOOSE i \in hits : \A j \in hits : i <= j

resolve_capture_input(capture_source, capture_window_hwnd, capture_window_title, list_ok, available_windows) ==
    IF capture_source = "monitor" THEN [ok |-> TRUE, kind |-> "Monitor"]
    ELSE IF capture_source # "window" THEN [ok |-> TRUE, kind |-> "Monitor"]
    ELSE
    LET requested_hwnd == normalize_optional_setting(capture_window_hwnd)
        requested_title == normalize_optional_setting(capture_window_title)
        by_title == IF requested_title = None THEN 0
                    ELSE FindByTitle(available_windows, requested_title[1])
        TitleCapture ==
            IF by_title # 0
            THEN [ok |-> TRUE, kind |-> "Window",
                  input_target |-> <<"hwnd", available_windows[by_title].hwnd>>,
                  window_hwnd |-> parse_window_handle(available_windows[by_title].hwnd),
                  window_title |-> requested_title]
            ELSE [ok |-> TRUE, kind |-> "Window",
                  input_target |-> <<"title", requested_title[1]>>,
                  window_hwnd |-> None,
                  window_title |-> requested_title]
    IN  IF requested_hwnd = None /\ requested_title = None
        THEN [ok |-> FALSE, error |-> "select a window"]
        ELSE IF ~list_ok
        THEN [ok |-> FALSE, error |-> "failed to list"]
        ELSE IF requested_hwnd # None
        THEN IF \E i \in 1..Len(available_windows) :
                    available_windows[i].hwnd = requested_hwnd[1]
             THEN [ok |-> TRUE, kind |-> "Window",
                   input_target |-> <<"hwnd", requested_hwnd[1]>>,
                   window_hwnd |-> parse_window_handle(requested_hwnd[1]),
                   window_title |-> requested_title]
             ELSE IF requested_title # None
             THEN TitleCapture
             ELSE [ok |-> FALSE, error |-> "no longer available"]
        ELSE TitleCapture

\* the call of resolve_capture_input in start_recording
ResolveCaptureInput ==
    /\ lookup.pc = "called"
    /\ lookup' = [lookup EXCEPT
           !.pc = "returned",
           !.result = resolve_capture_input(lookup.capture_source,
                          lookup.capture_window_hwnd, lookup.capture_window_title,
                          lookup.list_ok, lookup.available_windows)]
    /\ UNCHANGED <<shell, recording_vars, pipeline, geometry>>

(* ------------------------- capture dimensions ------------------------- *)
DEFAULT_CAPTURE_WIDTH == 1920

DEFAULT_CAPTURE_HEIGHT == 1080

MIN_CAPTURE_DIMENSION == 2

Max(a, b) == IF a >= b THEN a ELSE b

Min(a, b) == IF a <= b THEN a ELSE b

\* u32::saturating_sub
SaturatingSub(a, b) == IF a < b THEN 0 ELSE a - b

normalize_capture_dimensionNoFloor(value) ==
    IF value % 2 # 0 THEN SaturatingSub(value, 1) ELSE value

normalize_capture_dimension(value) ==
    LET floored == Max(value, MIN_CAPTURE_DIMENSION)
        normalized == IF floored % 2 # 0 THEN SaturatingSub(floored, 1) ELSE floored
    IN  Max(normalized, MIN_CAPTURE_DIMENSION)

sanitize_capture_dimensions(width, height) ==
    <<normalize_capture_dimension(width), normalize_capture_dimension(height)>>

\* screen coordinates, and the rectangles over them
Coords == (0 - 1)..MaxCoord

Rects ==
    {[left |-> l, top |-> u, right |-> r, bottom |-> b] :
        l \in Coords, u \in Coords, r \in Coords, b \in Coords}

\* the monitors: at least two pixels wide and high
Monitors ==
    {m \in Rects : m.right - m.left >= MIN_CAPTURE_DIMENSION
                     /\ m.bottom - m.top >= MIN_CAPTURE_DIMENSION}

\* window_client_rect_in_screen: None for a rectangle without area
ClientRects == {c \in Rects : c.left < c.right /\ c.top < c.bottom}

\* resolve_window_capture_region; api_ok: the handle, the monitor and the
\* client rectangle could be obtained
resolve_window_capture_region(api_ok, rcMonitor, client_rect) ==
    LET capture_left == Max(client_rect.left, rcMonitor.left)
        capture_top == Max(client_rect.top, rcMonitor.top)
        capture_right == Min(client_rect.right, rcMonitor.right)
        capture_bottom == Min(client_rect.bottom, rcMonitor.bottom)
        raw_width == capture_right - capture_left
        raw_height == capture_bottom - capture_top
        dims == sanitize_capture_dimensions(raw_width, raw_height)
    IN  IF ~api_ok THEN [ok |-> FALSE]
        ELSE IF capture_right <= capture_left \/ capture_bottom <= capture_top
        THEN [ok |-> FALSE]
        ELSE [ok |-> TRUE,
              offset_x |-> capture_left - rcMonitor.left,
              offset_y |-> capture_top - rcMonitor.top,
              width |-> dims[1], height |-> dims[2]]

resolve_capture_dimensions(capture_input, api_ok, rcMonitor, client_rect, availability) ==
    LET region == resolve_window_capture_region(api_ok, rcMonitor, client_rect)
    IN  IF capture_input = "Window" /\ region.ok
        THEN <<region.width, region.height>>
        ELSE IF capture_input = "Window" /\ availability # "Available"
        THEN <<DEFAULT_CAPTURE_WIDTH, DEFAULT_CAPTURE_HEIGHT>>
        ELSE sanitize_capture_dimensions(DEFAULT_CAPTURE_WIDTH, DEFAULT_CAPTURE_HEIGHT)

\* a call of normalize_capture_dimension returns
NormalizeDimension ==
    /\ geometry.pc = "normalize"
    /\ geometry' = [geometry EXCEPT
           !.pc = "normalized",
           !.result = normalize_capture_dimension(geometry.value)]
    /\ UNCHANGED <<shell, recording_vars, pipeline, lookup>>

\* a call of resolve_window_capture_region returns
ResolveRegion ==
    /\ geometry.pc = "region"
    /\ geometry' = [geometry EXCEPT
           !.pc = "region_resolved",
           !.result = resolve_window_capture_region(geometry.api_ok,
                          geometry.rcMonitor, geometry.client_rect)]
    /\ UNCHANGED <<shell, recording_vars, pipeline, lookup>>

\* the call of resolve_capture_dimensions in start_recording returns
ResolveDimensions ==
    /\ geometry.pc = "dimensions"
    /\ geometry' = [geometry EXCEPT
           !.pc = "dimensions_resolved",
           !.result = resolve_capture_dimensions(geometry.capture_input,
                          geometry.api_ok, geometry.rcMonitor,
                          geometry.client_rect, geometry.availability)]
    /\ UNCHANGED <<shell, recording_vars, pipeline, lookup>>

(* ------------------- watcher of probes and warnings -------------------- *)
\* evaluate_window_capture_availability returned availability
Probed(h, availability) ==
    IF ~shell.watches_warnings THEN h
    ELSE [h EXCEPT !.unavailable_probed = @ \/ availability # "Available",
                   !.observed = availability,
                   !.changed = @ \/ availability # h.observed]

\* emit_recording_warning was called
WarningEmitted(h) ==
    IF ~shell.watches_warnings THEN h
    ELSE [h EXCEPT !.duplicate_emission = @ \/ (h.emitted /\ ~h.changed),
                   !.warning_after_cleared = @ \/ h.cleared_pending,
                   !.cleared_pending = FALSE,
                   !.emitted = TRUE, !.changed = FALSE]

\* emit_recording_warning_cleared was called
ClearedEmitted(h) ==
    IF ~shell.watches_warnings THEN h
    ELSE [h EXCEPT !.duplicate_emission = @ \/ (h.emitted /\ ~h.changed),
                   !.cleared_pending = TRUE,
                   !.emitted = TRUE, !.changed = FALSE]

\* an availability tick observed a change and emitted nothing
NothingEmitted(h) ==
    IF ~shell.watches_warnings THEN h
    ELSE [h EXCEPT !.missed_change = @ \/ h.changed]

\* the driver applied a Switch: the runtime capture mode changed
ModeChanged(h) ==
    IF ~shell.watches_warnings THEN h
    ELSE [h EXCEPT !.cleared_pending = FALSE]

(* --------------------------- start_recording --------------------------- *)
\* first check under the read lock, then the fallible setup
StartReadCheck(c) ==
    /\ c <= shell.starts
    /\ c > 1 => start_call[c - 1].pc # "idle"
    /\ start_call[c].pc = "idle"
    /\ IF AlreadyInProgress
       THEN start_call' = [start_call EXCEPT ![c].pc = "err_busy"]
       ELSE \E setup_ok \in BOOLEAN :
              start_call' = [start_call EXCEPT
                  ![c].pc = IF setup_ok THEN "checked" ELSE "err_setup",
                  ![c].epoch = session_count]
    /\ UNCHANGED <<pipeline, lookup, geometry, shell, state, session_count, stop_call, stop_chan, session,
                   segment, audio, files, events, history>>

\* the write-locked re-check decides whether the call may register a session
StartCommitRejectsNoRecheck == FALSE

StartCommitRejects == AlreadyInProgress

\* the RecordingState a rejected start_recording leaves behind: the early
\* return under the write lock assigns nothing
RejectedStartStateReset == RecordingStateNew

RejectedStartState == state

\* second check under the write lock, registration and thread spawn
StartCommit(c) ==
    /\ start_call[c].pc = "checked"
    /\ IF StartCommitRejects
       THEN /\ start_call' = [start_call EXCEPT ![c].pc = "err_busy"]
            /\ state' = RejectedStartState
            /\ UNCHANGED <<session_count, session>>
       ELSE /\ session_count < MaxSessions
            /\ LET s == session_count + 1 IN
               /\ session_count' = s
               /\ state' = [is_recording |-> TRUE, is_stopping |-> FALSE,
                            current_output_path |-> s, stop_tx |-> s]
               /\ \E input \in shell.capture_sources,
                     with_audio \in shell.system_audio :
                    session' = [session EXCEPT ![s] =
                        [SessionNew EXCEPT !.pc = "setup",
                                           !.capture_input = input,
                                           !.include_system_audio = with_audio,
                                           !.runtime_capture_mode = input]]
               /\ start_call' = [start_call EXCEPT ![c].pc = "ok", ![c].session = s]
    /\ UNCHANGED <<pipeline, lookup, geometry, shell, stop_call, stop_chan, segment, audio, files, events,
                   history>>

(* --------------------------- stop_recording ---------------------------- *)
\* whether a call that finds is_stopping already set returns at once
StopReturnsEarlyNever == FALSE

StopReturnsEarly == state.is_stopping

\* what stop_tx.take() leaves in RecordingState
StopTxAfterTakeKept == state.stop_tx

StopTxAfterTake == NoSession

\* the part of stop_recording that runs under the write lock; during: the
\* session that was recording when the call ran (the last one registered)
StopLocked(k) ==
    /\ k <= shell.stops
    /\ k > 1 => stop_call[k - 1].pc # "idle"
    /\ stop_call[k].pc = "idle"
    /\ IF ~state.is_recording
       THEN /\ stop_call' = [stop_call EXCEPT ![k].pc = "done", ![k].result = "err"]
            /\ UNCHANGED <<state, history>>
       ELSE IF state.current_output_path = NoSession
       THEN /\ stop_call' = [stop_call EXCEPT ![k].pc = "done", ![k].result = "err",
                                              ![k].during = session_count]
            /\ UNCHANGED <<state, history>>
       ELSE IF StopReturnsEarly
       THEN /\ stop_call' = [stop_call EXCEPT ![k].pc = "done", ![k].result = "ok",
                                              ![k].during = session_count,
                                              ![k].path = state.current_output_path]
            /\ UNCHANGED <<state, history>>
       ELSE /\ state' = [state EXCEPT !.is_stopping = TRUE,
                                      !.stop_tx = StopTxAfterTake]
            /\ history' = [history EXCEPT
                   ![state.current_output_path].stop_state_changes = @ + 1]
            /\ stop_call' = [stop_call EXCEPT
                   ![k].pc = "send",
                   ![k].during = session_count,
                   ![k].held = state.stop_tx,
                   ![k].path = state.current_output_path]
    /\ UNCHANGED <<pipeline, lookup, geometry, shell, session_count, start_call, stop_chan, session, segment,
                   audio, files, events>>

\* the send on the taken Sender, outside the lock; the Sender is dropped after
StopSend(k) ==
    /\ stop_call[k].pc = "send"
    /\ LET s == stop_call[k].held IN
       /\ IF s # NoSession /\ ThreadAlive(s)
          THEN /\ stop_chan' = [stop_chan EXCEPT ![s] = @ + 1]
               /\ history' = [history EXCEPT
                      ![s].stop_signals_sent = @ + 1,
                      ![s].stop_sent_while_running =
                          session[s].pc = "poll" /\ segment[s].child = "running"]
          ELSE UNCHANGED <<stop_chan, history>>
       /\ stop_call' = [stop_call EXCEPT ![k].pc = "done", ![k].held = NoSession,
                                         ![k].result = "ok"]
    /\ UNCHANGED <<pipeline, lookup, geometry, shell, state, session_count, start_call, session, segment,
                   audio, files, events>>

(* ------------------------- session thread ------------------------------ *)
warning_message_for_window_capture(availability) ==
    CASE availability = "Available" -> "none"
      [] availability = "Minimized" -> "minimized"
      [] availability = "Closed" -> "closed"

\* the segment index is capped: a segment may hand over to a next one only
\* below the cap
MayRestart(d) == d.segment_index + 1 < MaxSegments

FailureBudgetSpent(d, succeeded) ==
    ~succeeded /\ d.consecutive_segment_failures + 1 >= MaxConsecutiveFailures

\* a segment may end by itself (no user stop) when the driver can go on, or
\* when the driver ends the session whatever the transition is
MayEndWithoutStop(d, succeeded) ==
    \/ MayRestart(d)
    \/ d.runtime_capture_mode = "Monitor"
    \/ FailureBudgetSpent(d, succeeded)

\* thread start: choose the runtime mode, create the workspace
SessionSetup(s) ==
    /\ session[s].pc = "setup"
    /\ LET d == session[s] IN
       IF d.capture_input = "Window"
       THEN \E initial_availability \in Availabilities, created \in BOOLEAN :
              LET mode == IF initial_availability # "Available"
                          THEN "Black" ELSE "Window"
                  ev == IF initial_availability # "Available"
                        THEN Emit(events[s], "warning") ELSE events[s]
                  h == IF initial_availability # "Available"
                       THEN WarningEmitted(Probed(history[s], initial_availability))
                       ELSE Probed(history[s], initial_availability)
              IN /\ events' = [events EXCEPT ![s] = ev]
                 /\ history' = [history EXCEPT ![s] = h]
                 /\ IF created
                    THEN /\ session' = [session EXCEPT
                                ![s].runtime_capture_mode = mode,
                                ![s].has_workspace = TRUE,
                                ![s].pc = "segment"]
                         /\ files' = [files EXCEPT ![s].workspace = "exists"]
                    ELSE /\ session' = [session EXCEPT
                                ![s].runtime_capture_mode = mode,
                                ![s].pc = "clear"]
                         /\ UNCHANGED files
       ELSE /\ session' = [session EXCEPT ![s].pc = "segment"]
            /\ UNCHANGED <<events, files, history>>
    /\ UNCHANGED <<pipeline, lookup, geometry, shell, state, session_count, start_call, stop_call, stop_chan,
                   segment, audio>>

\* the driver's bookkeeping after a segment result (the body of the loop
\* after run_ffmpeg_recording_segment returned)
ConsecutiveFailureLimit(failures) == failures >= MaxConsecutiveFailures

\* the counter of consecutive failed segments after a segment result
NextFailureCountNoReset(failures, ffmpeg_succeeded) ==
    IF ffmpeg_succeeded THEN failures ELSE failures + 1

NextFailureCount(failures, ffmpeg_succeeded) ==
    IF ffmpeg_succeeded THEN 0 ELSE failures + 1

\* the driver's match on the transition without the refusal to restart a
\* monitor session
DriverAfterSegmentRestartsMonitor(d, transition, next_mode, ffmpeg_succeeded, output_written) ==
    LET paths == IF output_written
                 THEN Append(d.segment_paths, d.segment_index)
                 ELSE d.segment_paths
        failures == NextFailureCount(d.consecutive_segment_failures, ffmpeg_succeeded)
        d1 == [d EXCEPT !.segment_paths = paths,
                        !.consecutive_segment_failures = failures]
    IN  IF ConsecutiveFailureLimit(failures)
        THEN [d1 EXCEPT !.pc = "finalize"]
        ELSE CASE transition = "Stop" -> [d1 EXCEPT !.pc = "finalize"]
               [] transition = "Switch" ->
                    [d1 EXCEPT !.runtime_capture_mode = next_mode,
                               !.segment_index = @ + 1,
                               !.pc = "segment"]
               [] transition = "RestartSameMode" ->
                    [d1 EXCEPT !.segment_index = @ + 1, !.pc = "segment"]

\* the driver loop of record_with_ffmpeg keeping segment_index on a restart
\* in the same mode
DriverAfterSegmentSameIndex(d, transition, next_mode, ffmpeg_succeeded, output_written) ==
    LET paths == IF output_written
                 THEN Append(d.segment_paths, d.segment_index)
                 ELSE d.segment_paths
        failures == NextFailureCount(d.consecutive_segment_failures, ffmpeg_succeeded)
        d1 == [d EXCEPT !.segment_paths = paths,
                        !.consecutive_segment_failures = failures]
    IN  IF ConsecutiveFailureLimit(failures)
        THEN [d1 EXCEPT !.pc = "finalize"]
        ELSE CASE transition = "Stop" -> [d1 EXCEPT !.pc = "finalize"]
               [] transition = "Switch" ->
                    [d1 EXCEPT !.runtime_capture_mode = next_mode,
                               !.segment_index = @ + 1,
                               !.pc = "segment"]
               [] transition = "RestartSameMode" ->
                    IF d1.runtime_capture_mode = "Monitor"
                    THEN [d1 EXCEPT !.pc = "finalize"]
                    ELSE [d1 EXCEPT !.pc = "segment"]

DriverAfterSegment(d, transition, next_mode, ffmpeg_succeeded, output_written) ==
    LET paths == IF output_written
                 THEN Append(d.segment_paths, d.segment_index)
                 ELSE d.segment_paths
        failures == NextFailureCount(d.consecutive_segment_failures, ffmpeg_succeeded)
        d1 == [d EXCEPT !.segment_paths = paths,
                        !.consecutive_segment_failures = failures]
    IN  IF ConsecutiveFailureLimit(failures)
        THEN [d1 EXCEPT !.pc = "finalize"]
        ELSE CASE transition = "Stop" -> [d1 EXCEPT !.pc = "finalize"]
               [] transition = "Switch" ->
                    [d1 EXCEPT !.runtime_capture_mode = next_mode,
                               !.segment_index = @ + 1,
                               !.pc = "segment"]
               [] transition = "RestartSameMode" ->
                    IF d1.runtime_capture_mode = "Monitor"
                    THEN [d1 EXCEPT !.pc = "finalize"]
                    ELSE [d1 EXCEPT !.segment_index = @ + 1, !.pc = "segment"]

\* the driver has used the result of the last segment
ResultConsumed(h) ==
    [h EXCEPT !.child_awaited = "none", !.transition = "none", !.next_mode = "none",
              !.kill_attempts = 0, !.force_killed = FALSE]

\* run_ffmpeg_recording_segment has returned the SegmentTransition
\* `transition`; next_mode is the mode a Switch names
Returned(h, transition, next_mode) ==
    [h EXCEPT !.transition = transition,
              !.next_mode = IF transition = "Switch" THEN next_mode ELSE "none"]

\* Command::spawn succeeded: count the children spawned after stop_recording
\* has sent the stop signal
ChildSpawned(h) ==
    [h EXCEPT !.children_after_stop = IF h.stop_signals_sent > 0 THEN @ + 1 ELSE @]

\* the watcher's view of the driver's step from d to e
DriverWatched(h, d, e) ==
    IF e.runtime_capture_mode # d.runtime_capture_mode THEN ModeChanged(h) ELSE h

\* run_ffmpeg_recording_segment up to the poll loop: listener, capture input,
\* spawn, stderr reader, audio workers; the early exits return to the driver
SegmentStart(s) ==
    /\ session[s].pc = "segment"
    /\ LET d == session[s] IN
       \E bind_ok \in BOOLEAN, input_ok \in BOOLEAN, spawn_ok \in BOOLEAN,
          availability \in Availabilities, capture_ready \in BOOLEAN :
         IF d.include_system_audio /\ ~bind_ok
         THEN /\ session' = [session EXCEPT ![s] =
                     DriverAfterSegment(d, "Stop", d.runtime_capture_mode, FALSE, FALSE)]
              /\ history' = [history EXCEPT ![s] =
                     Returned(ResultConsumed(@), "Stop", d.runtime_capture_mode)]
              /\ UNCHANGED <<segment, audio, events>>
         ELSE IF d.runtime_capture_mode = "Window" /\ ~input_ok
         THEN \* segment_result_for_capture_input_error
              /\ MayRestart(d) \/ FailureBudgetSpent(d, FALSE)
              /\ events' = [events EXCEPT ![s] = Emit(@, "warning")]
              /\ session' = [session EXCEPT ![s] =
                     DriverAfterSegment(d, "Switch", "Black", FALSE, FALSE)]
              /\ history' = [history EXCEPT ![s] =
                     Returned(
                       DriverWatched(WarningEmitted(Probed(ResultConsumed(@), availability)),
                                     d, session'[s]),
                       "Switch", "Black")]
              /\ UNCHANGED <<segment, audio>>
         ELSE IF ~spawn_ok
         THEN /\ session' = [session EXCEPT ![s] =
                     DriverAfterSegment(d, "Stop", d.runtime_capture_mode, FALSE, FALSE)]
              /\ history' = [history EXCEPT ![s] =
                     Returned(ResultConsumed(@), "Stop", d.runtime_capture_mode)]
              /\ UNCHANGED <<segment, audio, events>>
         ELSE /\ session' = [session EXCEPT ![s].pc = "poll"]
              /\ history' = [history EXCEPT ![s] =
                     ChildSpawned(IF d.runtime_capture_mode = "Window"
                                  THEN ClearedEmitted(ResultConsumed(@))
                                  ELSE ResultConsumed(@))]
              /\ segment' = [segment EXCEPT ![s] =
                     [SegmentNew EXCEPT
                        !.child = "running",
                        !.spawned_after_stop = history[s].stop_signals_sent > 0]]
              /\ events' = [events EXCEPT ![s] =
                     IF d.runtime_capture_mode = "Window"
                     THEN Emit(@, "warning_cleared") ELSE @]
              /\ audio' = [audio EXCEPT ![s] =
                     IF d.include_system_audio
                     THEN [AudioNew EXCEPT
                             !.capture = IF capture_ready THEN "running" ELSE "done",
                             !.writer = "accepting"]
                     ELSE AudioNew]
    /\ UNCHANGED <<pipeline, lookup, geometry, shell, state, session_count, start_call, stop_call, stop_chan,
                   files>>

(* ---------------------------- poll loop -------------------------------- *)
\* tokio mpsc try_recv on the session's stop channel
TryRecv(s) ==
    IF stop_chan[s] > 0 THEN "Ok"
    ELSE IF ~SenderAlive(s) THEN "Disconnected"
    ELSE "Empty"

\* signal_audio_threads_stop
signal_audio_threads_stop(a) ==
    IF a.capture # "none"
    THEN [a EXCEPT !.capture_stop = TRUE, !.writer_stop = TRUE]
    ELSE a

\* request_ffmpeg_graceful_stop without the test of stop_requested_at:
\* child.stdin.take() still yields the stdin only once
request_ffmpeg_graceful_stopUnguarded(g) ==
    [g EXCEPT !.stop_requests = @ + 1,
              !.stop_requested_at = TRUE,
              !.stop_requested_at_call = g.stop_requests + 1,
              !.stdin = "taken",
              !.stdin_writes = IF g.stdin = "piped" THEN @ + 1 ELSE @]

\* request_ffmpeg_graceful_stop: only the first request has an effect.
\* stop_requests counts the calls within the segment; the Instant kept in
\* stop_requested_at is modelled by the number of the call that stored it
\* (stop_requested_at_call); stdin_writes counts the writes of "q\n"
request_ffmpeg_graceful_stop(g) ==
    IF ~g.stop_requested_at
    THEN [g EXCEPT !.stop_requests = @ + 1,
                   !.stop_requested_at = TRUE,
                   !.stop_requested_at_call = g.stop_requests + 1,
                   !.stdin = "taken",
                   !.stdin_writes = IF g.stdin = "piped" THEN @ + 1 ELSE @]
    ELSE [g EXCEPT !.stop_requests = @ + 1]

\* the warning an availability tick wants shown: none, or its message
NextWindowWarningPlain(mode, availability) ==
    warning_message_for_window_capture(availability)

NextWindowWarning(mode, availability) ==
    IF mode = "Black" /\ availability = "Available"
    THEN "unavailable"
    ELSE warning_message_for_window_capture(availability)

\* bookkeeping at the end of a poll iteration: a child spawned after the
\* stop signal was sent has been polled without the signal being taken in
FirstPollWatched(g) ==
    IF g.spawned_after_stop /\ ~g.stop_requested_by_user
    THEN [g EXCEPT !.first_poll_missed_stop = TRUE]
    ELSE g

\* the poll loop's hard kill whenever the timeout has run out, whether or
\* not a stop was requested
kill_dueUnrequested(g, elapsed) == ~g.kill_sent /\ elapsed

\* the poll loop's condition for the hard kill: a stop was requested, no
\* kill was sent yet, and stop_timeout has run out since the first request
kill_due(g, elapsed) == g.stop_requested_at /\ ~g.kill_sent /\ elapsed

\* one iteration of run_segment_poll_loop; elapsed: the stop timeout of a
\* pending stop request has run out when the iteration looks at it;
\* wait_err: try_wait fails
PollStep(s, elapsed, wait_err) ==
    /\ session[s].pc = "poll"
    /\ LET d == session[s]
           g0 == segment[s]
           \* stop intake
           recv == IF g0.stop_requested_at THEN "Skipped" ELSE TryRecv(s)
           user == recv \in {"Ok", "Disconnected"}
           g1 == IF user
                 THEN request_ffmpeg_graceful_stop(
                          [g0 EXCEPT !.stop_requested_by_user = TRUE])
                 ELSE g0
           \* hard-kill timeout
           do_kill == kill_due(g1, elapsed)
       IN
       \E kill_ok \in (IF do_kill /\ g1.child = "exited" THEN BOOLEAN ELSE {TRUE}),
          kill_file \in (IF do_kill /\ g1.child = "running"
                         THEN FileStates ELSE {g1.out_file}),
          tick \in (IF d.capture_input = "Window" THEN BOOLEAN ELSE {FALSE}) :
        \E availability \in (IF tick THEN Availabilities ELSE {"Available"}) :
         \E handle_ok \in (IF tick /\ d.runtime_capture_mode = "Black"
                              /\ availability = "Available"
                           THEN BOOLEAN ELSE {TRUE}) :
          LET g2 == IF do_kill
                    THEN [g1 EXCEPT !.kill_sent = TRUE,
                                    !.kill_attempts = @ + 1,
                                    !.force_killed = kill_ok,
                                    !.child = "exited",
                                    !.exit_ok = IF g1.child = "running"
                                                THEN FALSE ELSE @,
                                    !.out_file = kill_file]
                    ELSE g1
              \* availability tick
              next_window_warning ==
                  NextWindowWarning(d.runtime_capture_mode, availability)
              warn_changed == tick /\ next_window_warning # g2.active_window_warning
              g3 == IF warn_changed
                    THEN [g2 EXCEPT !.active_window_warning = next_window_warning]
                    ELSE g2
              to_black == /\ tick /\ g3.requested_transition = "none"
                          /\ d.runtime_capture_mode = "Window"
                          /\ availability # "Available"
              to_window == /\ tick /\ g3.requested_transition = "none"
                           /\ d.runtime_capture_mode = "Black"
                           /\ availability = "Available" /\ handle_ok
              g4 == IF to_black
                    THEN request_ffmpeg_graceful_stop(
                             [g3 EXCEPT !.requested_transition = "Black"])
                    ELSE IF to_window
                    THEN request_ffmpeg_graceful_stop(
                             [g3 EXCEPT !.requested_transition = "Window"])
                    ELSE g3
              \* try_wait
              leaves == wait_err \/ g4.child = "exited"
              g5 == FirstPollWatched(
                        IF wait_err THEN [g4 EXCEPT !.wait_failed = TRUE] ELSE g4)
              a0 == audio[s]
              a1 == IF g5.stop_requested_at \/ leaves
                    THEN signal_audio_threads_stop(a0) ELSE a0
          IN  /\ (to_black \/ to_window) => MayRestart(d)
              /\ (wait_err /\ ~g4.stop_requested_at) => MayEndWithoutStop(d, FALSE)
              /\ segment' = [segment EXCEPT ![s] = g5]
              /\ audio' = [audio EXCEPT ![s] = a1]
              /\ stop_chan' = [stop_chan EXCEPT ![s] =
                     IF recv = "Ok" THEN @ - 1 ELSE @]
              /\ events' = [events EXCEPT ![s] =
                     IF warn_changed
                     THEN Emit(@, IF next_window_warning = "none"
                                  THEN "warning_cleared" ELSE "warning")
                     ELSE @]
              /\ files' = [files EXCEPT ![s].final_file =
                     IF d.has_workspace THEN @ ELSE g5.out_file]
              /\ history' = [history EXCEPT ![s] =
                     IF ~tick THEN @
                     ELSE IF ~warn_changed THEN NothingEmitted(Probed(@, availability))
                     ELSE IF next_window_warning = "none"
                     THEN ClearedEmitted(Probed(@, availability))
                     ELSE WarningEmitted(Probed(@, availability))]
              /\ session' = [session EXCEPT ![s].pc =
                     IF leaves THEN "join" ELSE "poll"]
    /\ UNCHANGED <<pipeline, lookup, geometry, shell, state, session_count, start_call, stop_call>>

PollIteration(s) == \E elapsed \in BOOLEAN, wait_err \in BOOLEAN : PollStep(s, elapsed, wait_err)

(* --------------------------- encoder child ----------------------------- *)
\* the child exits, on its own or after the graceful stop, and leaves the
\* file at the segment's output path: the final output in a session without
\* workspace, segment_NNNN.mp4 of the workspace otherwise
EncoderExits(s) ==
    /\ segment[s].child = "running"
    /\ \E ok \in BOOLEAN, file \in FileStates :
         /\ ok => file = "nonempty"
         /\ \/ segment[s].stop_requested_at
            \/ MayEndWithoutStop(session[s], ok)
         /\ segment' = [segment EXCEPT ![s].child = "exited", ![s].exit_ok = ok,
                                       ![s].out_file = file]
         /\ files' = [files EXCEPT ![s].final_file =
                IF session[s].has_workspace THEN @ ELSE file]
    /\ UNCHANGED <<pipeline, lookup, geometry, shell, state, session_count, start_call, stop_call, stop_chan,
                   session, audio, events, history>>

(* ---------------------------- audio workers ---------------------------- *)
\* an iteration of the loop of run_system_audio_capture_to_queue that ends
\* the worker; an iteration whose packet poll or read fails sleeps and
\* continues before it looks at should_stop, and changes nothing
CaptureIteration(s) ==
    /\ audio[s].capture = "running"
    /\ audio[s].device = "ok"
    /\ \/ audio[s].capture_stop
       \/ audio[s].writer = "done"
    /\ audio' = [audio EXCEPT ![s].capture = "done"]
    /\ UNCHANGED <<pipeline, lookup, geometry, shell, state, session_count, start_call, stop_call, stop_chan,
                   session, segment, files, events, history>>

\* from now on every packet poll of the render device fails
DeviceFails(s) ==
    /\ audio[s].capture = "running"
    /\ audio[s].device = "ok"
    /\ audio' = [audio EXCEPT ![s].device = "failing"]
    /\ UNCHANGED <<pipeline, lookup, geometry, shell, state, session_count, start_call, stop_call, stop_chan,
                   session, segment, files, events, history>>

\* the writer thread: the accept loop, then run_audio_queue_to_writer
WriterIteration(s) ==
    /\ audio[s].writer \in {"accepting", "writing"}
    /\ LET a == audio[s] IN
       \E outcome \in {"connected", "error", "disconnected", "stopped"} :
         /\ outcome = "connected" => a.writer = "accepting" /\ segment[s].child = "running"
         /\ outcome = "disconnected" => a.writer = "writing" /\ a.capture = "done"
         /\ outcome = "stopped" => a.writer_stop
         /\ audio' = [audio EXCEPT ![s].writer =
               IF outcome = "connected" THEN "writing" ELSE "done"]
    /\ UNCHANGED <<pipeline, lookup, geometry, shell, state, session_count, start_call, stop_call, stop_chan,
                   session, segment, files, events, history>>

(* ------------------------- audio queue counters ------------------------ *)
\* chunks the capture worker has handed to try_send so far
ChunksProduced ==
    pipeline.queued_chunks + pipeline.dropped_chunks
      + (IF pipeline.capture \in {"sent", "sent_last"} THEN 1 ELSE 0)

\* SyncSender::try_send on a channel without capacity limit
try_sendUnbounded(queue, chunk) ==
    [ok |-> TRUE, queue |-> Append(queue, chunk)]

\* SyncSender::try_send on the sync_channel of SYSTEM_AUDIO_QUEUE_CAPACITY
\* chunks (MaxQueueLen here): Full leaves the queue as it is. A chunk is
\* modelled by its length in bytes.
try_send(queue, chunk) ==
    IF Len(queue) < MaxQueueLen
    THEN [ok |-> TRUE, queue |-> Append(queue, chunk)]
    ELSE [ok |-> FALSE, queue |-> queue]

\* run_system_audio_capture_to_queue: read_from_device_to_deque appends a
\* packet to sample_queue; it runs only after the while loop has left less
\* than a chunk there
AudioReadPacket ==
    /\ pipeline.capture = "loop"
    /\ pipeline.sample_queue < chunk_size_bytes
    /\ \E packet \in 1..MaxPacketBytes :
         /\ ChunksProduced * chunk_size_bytes + pipeline.sample_queue + packet
               <= MaxChunks * chunk_size_bytes
         /\ pipeline' = [pipeline EXCEPT !.sample_queue = @ + packet]
    /\ UNCHANGED <<shell, recording_vars, lookup, geometry>>

\* run_system_audio_capture_to_queue: one round of the while loop, which
\* drains chunk_size_bytes from sample_queue and calls audio_tx.try_send(chunk)
AudioTrySend ==
    /\ pipeline.capture = "loop"
    /\ pipeline.sample_queue >= chunk_size_bytes
    /\ LET sent == try_send(pipeline.queue, chunk_size_bytes)
           drained == [pipeline EXCEPT !.sample_queue = @ - chunk_size_bytes]
       IN pipeline' =
            IF pipeline.writer = "done"
            THEN [drained EXCEPT !.capture = "done"]
            ELSE IF sent.ok
            THEN [drained EXCEPT !.queue = sent.queue, !.capture = "sent"]
            ELSE [drained EXCEPT !.dropped_chunks = @ + 1]
    /\ UNCHANGED <<shell, recording_vars, lookup, geometry>>

\* stats.queued_chunks.fetch_add(1) after a successful try_send
AudioCountQueued ==
    /\ pipeline.capture \in {"sent", "sent_last"}
    /\ pipeline' = [pipeline EXCEPT
           !.queued_chunks = @ + 1,
           !.capture = IF pipeline.capture = "sent" THEN "loop" ELSE "done"]
    /\ UNCHANGED <<shell, recording_vars, lookup, geometry>>

\* the capture worker leaves its loop on should_stop, after the while loop;
\* what is left in sample_queue is sent as a last, shorter chunk
AudioCaptureStops ==
    /\ pipeline.capture = "loop"
    /\ pipeline.sample_queue < chunk_size_bytes
    /\ LET sent == try_send(pipeline.queue, pipeline.sample_queue)
           drained == [pipeline EXCEPT !.sample_queue = 0]
       IN pipeline' =
            IF pipeline.sample_queue > 0 /\ pipeline.writer # "done" /\ sent.ok
            THEN [drained EXCEPT !.queue = sent.queue, !.capture = "sent_last"]
            ELSE [drained EXCEPT !.capture = "done"]
    /\ UNCHANGED <<shell, recording_vars, lookup, geometry>>

\* run_audio_queue_to_writer: audio_rx.recv_timeout returns a chunk, or
\* Disconnected once the sender is dropped and the queue is empty
AudioRecv ==
    /\ pipeline.writer = "loop"
    /\ \/ /\ pipeline.queue # <<>>
          /\ pipeline' = [pipeline EXCEPT !.queue = Tail(@), !.writer = "got"]
       \/ /\ pipeline.queue = <<>>
          /\ pipeline.capture = "done"
          /\ pipeline' = [pipeline EXCEPT !.writer = "done"]
    /\ UNCHANGED <<shell, recording_vars, lookup, geometry>>

\* what write_all(&chunk) can return: the chunk was written in full, the
\* write timed out (WouldBlock or TimedOut), or another error
WriteOutcomes == {"ok", "timeout", "error"}

\* stats.dequeued_chunks.fetch_add(1), then write_all: after a timeout the
\* loop continues with the next recv_timeout and the chunk is dropped with
\* the iteration; written_chunks counts the chunks written in full
AudioCountDequeued ==
    /\ pipeline.writer = "got"
    /\ \E outcome \in WriteOutcomes :
         pipeline' = [pipeline EXCEPT
             !.dequeued_chunks = @ + 1,
             !.written_chunks = IF outcome = "ok" THEN @ + 1 ELSE @,
             !.write_timeouts = IF outcome = "timeout" THEN @ + 1 ELSE @,
             !.write_error = outcome = "error",
             !.writer = IF outcome = "error" THEN "done" ELSE "loop"]
    /\ UNCHANGED <<shell, recording_vars, lookup, geometry>>

\* the writer's stop signal arrives
AudioWriterStops ==
    /\ pipeline.writer = "loop"
    /\ pipeline' = [pipeline EXCEPT !.writer = "done"]
    /\ UNCHANGED <<shell, recording_vars, lookup, geometry>>

(* ----------------------- end of a segment run -------------------------- *)
determine_segment_transitionUnprobed(mode, stop_requested_by_user, requested_transition, ffmpeg_succeeded, availability) ==
    IF stop_requested_by_user THEN <<"Stop", mode>>
    ELSE IF requested_transition # "none" THEN <<"Switch", requested_transition>>
    ELSE IF ffmpeg_succeeded THEN <<"RestartSameMode", mode>>
    ELSE CASE mode = "Window" -> <<"Switch", "Black">>
           [] mode = "Black" -> <<"Switch", "Window">>
           [] mode = "Monitor" -> <<"Stop", mode>>

\* determine_segment_transition with a failed monitor segment continued on
\* the black source
determine_segment_transitionMonitorToBlack(mode, stop_requested_by_user, requested_transition, ffmpeg_succeeded, availability) ==
    IF stop_requested_by_user THEN <<"Stop", mode>>
    ELSE IF requested_transition # "none" THEN <<"Switch", requested_transition>>
    ELSE IF ffmpeg_succeeded THEN <<"RestartSameMode", mode>>
    ELSE CASE mode = "Window" ->
                IF availability # "Available"
                THEN <<"Switch", "Black">> ELSE <<"RestartSameMode", mode>>
           [] mode = "Black" ->
                IF availability = "Available"
                THEN <<"Switch", "Window">> ELSE <<"RestartSameMode", mode>>
           [] mode = "Monitor" -> <<"Switch", "Black">>

\* determine_segment_transition with the requested switch tested before the
\* user stop
determine_segment_transitionSwitchFirst(mode, stop_requested_by_user, requested_transition, ffmpeg_succeeded, availability) ==
    IF requested_transition # "none" THEN <<"Switch", requested_transition>>
    ELSE IF stop_requested_by_user THEN <<"Stop", mode>>
    ELSE IF ffmpeg_succeeded THEN <<"RestartSameMode", mode>>
    ELSE CASE mode = "Window" ->
                IF availability # "Available"
                THEN <<"Switch", "Black">> ELSE <<"RestartSameMode", mode>>
           [] mode = "Black" ->
                IF availability = "Available"
                THEN <<"Switch", "Window">> ELSE <<"RestartSameMode", mode>>
           [] mode = "Monitor" -> <<"Stop", mode>>

determine_segment_transition(mode, stop_requested_by_user, requested_transition, ffmpeg_succeeded, availability) ==
    IF stop_requested_by_user THEN <<"Stop", mode>>
    ELSE IF requested_transition # "none" THEN <<"Switch", requested_transition>>
    ELSE IF ffmpeg_succeeded THEN <<"RestartSameMode", mode>>
    ELSE CASE mode = "Window" ->
                IF availability # "Available"
                THEN <<"Switch", "Black">> ELSE <<"RestartSameMode", mode>>
           [] mode = "Black" ->
                IF availability = "Available"
                THEN <<"Switch", "Window">> ELSE <<"RestartSameMode", mode>>
           [] mode = "Monitor" -> <<"Stop", mode>>

\* how the exit status of the segment's child was collected: by the try_wait
\* that ended the poll loop, or, after try_wait failed, by the wait that
\* follows the kill; wait_ok: that wait succeeded
ChildAwaitedNever(wait_failed, wait_ok) ==
    IF wait_failed THEN "not_awaited" ELSE "try_wait"

ChildAwaited(wait_failed, wait_ok) ==
    IF ~wait_failed THEN "try_wait"
    ELSE IF wait_ok THEN "wait" ELSE "wait_error"

\* the stderr reader ends when the child's stderr closes
StderrReaderDone(s) == segment[s].child = "exited"

\* join_worker_threads with the audio workers left detached
join_worker_threadsStderrOnly(s) ==
    StderrReaderDone(s)

\* join_worker_threads returns: the three joins block until the stderr
\* reader, the capture worker and the writer worker have ended
join_worker_threads(s) ==
    /\ StderrReaderDone(s)
    /\ audio[s].capture \in {"none", "done"}
    /\ audio[s].writer \in {"none", "done"}

\* should_fallback_window_capture_to_region; fingerprint: the exit code or
\* a stderr line is one of those of a failed graphics capture
should_fallback_window_capture_to_region(d, fingerprint) ==
    /\ d.capture_input = "Window"
    /\ d.use_exclusive_window_capture
    /\ fingerprint

\* CaptureInput::disable_wgc_window_capture
disable_wgc_window_capture(d) == [d EXCEPT !.use_exclusive_window_capture = FALSE]

\* the kills of a segment when it returns: those of the poll loop, and the
\* child.kill() after the poll loop ended with an error of try_wait, which
\* sets force_killed of the result when it succeeds
KillsRecorded(h, g, kill_ok) ==
    [h EXCEPT !.kill_attempts = g.kill_attempts + (IF g.wait_failed THEN 1 ELSE 0),
              !.force_killed = g.force_killed \/ (g.wait_failed /\ kill_ok)]

\* join_worker_threads, exit classification, and the driver's bookkeeping
JoinWorkers(s) ==
    /\ session[s].pc = "join"
    /\ join_worker_threads(s)
    /\ \E availability \in Availabilities,
          wait_ok \in (IF segment[s].wait_failed THEN BOOLEAN ELSE {TRUE}),
          kill_ok \in (IF segment[s].wait_failed THEN BOOLEAN ELSE {FALSE}),
          fingerprint \in (IF ~segment[s].wait_failed /\ ~segment[s].exit_ok
                           THEN shell.fingerprints ELSE {FALSE}) :
        LET falls_back == should_fallback_window_capture_to_region(session[s], fingerprint)
            d == IF falls_back THEN disable_wgc_window_capture(session[s]) ELSE session[s]
            g == segment[s]
            ffmpeg_succeeded == ~g.wait_failed /\ g.exit_ok
            output_written == g.out_file = "nonempty"
            t == determine_segment_transition(d.runtime_capture_mode,
                     g.stop_requested_by_user, g.requested_transition,
                     ffmpeg_succeeded, availability)
            probes == /\ ~g.stop_requested_by_user
                      /\ g.requested_transition = "none"
                      /\ ~ffmpeg_succeeded
                      /\ d.runtime_capture_mode \in {"Window", "Black"}
        IN  /\ session' = [session EXCEPT ![s] =
                   DriverAfterSegment(d, t[1], t[2], ffmpeg_succeeded, output_written)]
            /\ session'[s].pc = "segment" => MayRestart(d)
            /\ history' = [history EXCEPT ![s] =
                   [Returned(
                      DriverWatched(IF probes
                                    THEN Probed(KillsRecorded(@, g, kill_ok), availability)
                                    ELSE KillsRecorded(@, g, kill_ok),
                                    d, session'[s]),
                      t[1], t[2])
                      EXCEPT !.stop_sent_while_running = FALSE,
                             !.child_awaited = ChildAwaited(g.wait_failed, wait_ok)]]
            /\ events' = [events EXCEPT ![s] =
                   IF falls_back THEN Emit(@, "fallback_warning") ELSE @]
    /\ segment' = [segment EXCEPT ![s] = SegmentNew]
    /\ audio' = [audio EXCEPT ![s] = AudioNew]
    /\ UNCHANGED <<pipeline, lookup, geometry, shell, state, session_count, start_call, stop_call, stop_chan,
                   files>>

(* --------------------------- finalization ------------------------------ *)
RemoveAt(v, i) == SubSeq(v, 1, i - 1) \o SubSeq(v, i + 1, Len(v))

\* the candidates finalize_segmented_recording hands to
\* finalize_with_exact_segments, in order: all valid segments, each interior
\* segment dropped alone, the prefixes by decreasing length, the suffixes by
\* increasing start
LadderCandidatesSuffixesFirst(v) ==
    LET n == Len(v)
        middle == IF n > 2 THEN [j \in 1..(n - 2) |-> RemoveAt(v, j + 1)] ELSE <<>>
        prefixes == [j \in 1..(n - 1) |-> SubSeq(v, 1, n - j)]
        suffixes == [j \in 1..(n - 1) |-> SubSeq(v, j + 1, n)]
    IN  <<v>> \o middle \o suffixes \o prefixes

LadderCandidates(v) ==
    LET n == Len(v)
        middle == IF n > 2 THEN [j \in 1..(n - 2) |-> RemoveAt(v, j + 1)] ELSE <<>>
        prefixes == [j \in 1..(n - 1) |-> SubSeq(v, 1, n - j)]
        suffixes == [j \in 1..(n - 1) |-> SubSeq(v, j + 1, n)]
    IN  <<v>> \o middle \o prefixes \o suffixes

\* move_segment_to_final_output: what may become of the final output file
MoveOutcomes(file) ==
    (IF file # "absent" THEN {[ok |-> FALSE, file |-> file]} ELSE {})
    \cup {[ok |-> TRUE, file |-> "nonempty"]}
    \cup {[ok |-> FALSE, file |-> f] : f \in FileStates}

\* the concat run of finalize_with_exact_segments
ConcatOutcomes(file) ==
    {[ok |-> TRUE, file |-> "nonempty"]}
    \cup {[ok |-> FALSE, file |-> f] : f \in {file, "empty", "nonempty"}}

\* finalize_with_exact_segments
ExactOutcomes(candidate, file) ==
    IF Len(candidate) = 1 THEN MoveOutcomes(file) ELSE ConcatOutcomes(file)

\* finalize_segmented_recording: the filters for non-empty and decodable
\* segments
FinalizeBegin(s) ==
    /\ session[s].pc = "finalize"
    /\ session[s].has_workspace
    /\ \E valid \in SubSequences(session[s].segment_paths) :
         session' = [session EXCEPT
             ![s].valid_segment_paths = valid,
             ![s].finalize_attempt = IF valid = <<>> THEN 0 ELSE 1,
             ![s].finalize_result = IF valid = <<>> THEN "err" ELSE "none",
             ![s].pc = IF valid = <<>> THEN "cleanup" ELSE "finalize_try"]
    /\ history' = [history EXCEPT ![s] = ResultConsumed(@)]
    /\ UNCHANGED <<pipeline, lookup, geometry, shell, state, session_count, start_call, stop_call, stop_chan,
                   segment, audio, files, events>>

\* one call of finalize_with_exact_segments: the full set, then the ladder
FinalizeAttempt(s) ==
    /\ session[s].pc = "finalize_try"
    /\ LET d == session[s]
           candidates == LadderCandidates(d.valid_segment_paths)
       IN \E o \in ExactOutcomes(candidates[d.finalize_attempt], files[s].final_file) :
            /\ files' = [files EXCEPT ![s].final_file = o.file]
            /\ session' = [session EXCEPT ![s] =
                   IF o.ok
                   THEN [d EXCEPT !.finalize_result = "ok", !.pc = "cleanup"]
                   ELSE IF d.finalize_attempt = Len(candidates)
                   THEN [d EXCEPT !.finalize_result = "err", !.pc = "cleanup"]
                   ELSE [d EXCEPT !.finalize_attempt = @ + 1]]
    /\ UNCHANGED <<pipeline, lookup, geometry, shell, state, session_count, start_call, stop_call, stop_chan,
                   segment, audio, events, history>>

\* whether the event recording-finalized is emitted
EmitsFinalizedAlways(finalized_successfully) == TRUE

EmitsFinalized(finalized_successfully) == finalized_successfully

\* the events between finalization and clear_recording_state
AnnounceEndWithStopped(ev, finalized_successfully) ==
    Emit(Emit(ev, "stopped"), "warning_cleared")

AnnounceEnd(ev, finalized_successfully) ==
    Emit(IF EmitsFinalized(finalized_successfully)
         THEN Emit(ev, "finalized") ELSE ev,
         "warning_cleared")

\* whether cleanup_segment_workspace is called after a finalization result
CleansUpAfterSuccessOnly(finalize_result) == finalize_result = "ok"

CleansUp(finalize_result) == TRUE

\* cleanup_segment_workspace, then the events before the state is cleared
FinishFinalization(s) ==
    /\ session[s].pc = "cleanup"
    /\ IF CleansUp(session[s].finalize_result)
       THEN \E removed \in BOOLEAN :
              files' = [files EXCEPT
                  ![s].workspace = IF removed THEN "removed" ELSE @,
                  ![s].cleanup_attempted = TRUE]
       ELSE UNCHANGED files
    /\ events' = [events EXCEPT ![s] =
           AnnounceEnd(@, session[s].finalize_result = "ok")]
    /\ history' = [history EXCEPT ![s] = ClearedEmitted(@)]
    /\ session' = [session EXCEPT ![s].pc = "clear"]
    /\ UNCHANGED <<pipeline, lookup, geometry, shell, state, session_count, start_call, stop_call, stop_chan,
                   segment, audio>>

\* a session without workspace: the single segment is the final output
FinalizeMonitor(s) ==
    /\ session[s].pc = "finalize"
    /\ ~session[s].has_workspace
    /\ LET finalized_successfully == files[s].final_file = "nonempty" IN
       /\ events' = [events EXCEPT ![s] = AnnounceEnd(@, finalized_successfully)]
       /\ session' = [session EXCEPT
              ![s].finalize_result = IF finalized_successfully THEN "ok" ELSE "err",
              ![s].pc = "clear"]
       /\ history' = [history EXCEPT ![s] = ClearedEmitted(ResultConsumed(@))]
    /\ UNCHANGED <<pipeline, lookup, geometry, shell, state, session_count, start_call, stop_call, stop_chan,
                   segment, audio, files>>

(* ------------------------ end of the session --------------------------- *)
ClearedStateKeepsStopping == [RecordingStateNew EXCEPT !.is_stopping = state.is_stopping]

ClearedState == RecordingStateNew

\* clear_recording_state
ClearRecordingState(s) ==
    /\ session[s].pc = "clear"
    /\ state' = ClearedState
    /\ session' = [session EXCEPT ![s].pc = "emit_stopped"]
    /\ UNCHANGED <<pipeline, lookup, geometry, shell, session_count, start_call, stop_call, stop_chan, segment,
                   audio, files, events, history>>

\* emit_recording_stopped; the thread's closure returns
EmitRecordingStopped(s) ==
    /\ session[s].pc = "emit_stopped"
    /\ events' = [events EXCEPT ![s] = Emit(@, "stopped")]
    /\ session' = [session EXCEPT ![s] =
           [SessionNew EXCEPT !.pc = "done",
                              !.capture_input = session[s].capture_input,
                              !.include_system_audio = session[s].include_system_audio,
                              !.use_exclusive_window_capture =
                                  session[s].use_exclusive_window_capture,
                              !.has_workspace = session[s].has_workspace,
                              !.valid_segment_paths = session[s].valid_segment_paths,
                              !.finalize_attempt = session[s].finalize_attempt,
                              !.finalize_result = session[s].finalize_result]]
    /\ stop_chan' = [stop_chan EXCEPT ![s] = 0]
    /\ UNCHANGED <<pipeline, lookup, geometry, shell, state, session_count, start_call, stop_call, segment,
                   audio, files, history>>

(* --------------------------- specification ----------------------------- *)
Next ==
    \/ \E c \in StartCalls : StartReadCheck(c)
    \/ \E c \in StartCalls : StartCommit(c)
    \/ \E k \in StopCalls : StopLocked(k)
    \/ \E k \in StopCalls : StopSend(k)
    \/ \E s \in Sessions : SessionSetup(s)
    \/ \E s \in Sessions : SegmentStart(s)
    \/ \E s \in Sessions : PollIteration(s)
    \/ \E s \in Sessions : EncoderExits(s)
    \/ \E s \in Sessions : CaptureIteration(s)
    \/ \E s \in Sessions : DeviceFails(s)
    \/ \E s \in Sessions : WriterIteration(s)
    \/ \E s \in Sessions : JoinWorkers(s)
    \/ \E s \in Sessions : FinalizeBegin(s)
    \/ \E s \in Sessions : FinalizeAttempt(s)
    \/ \E s \in Sessions : FinishFinalization(s)
    \/ \E s \in Sessions : FinalizeMonitor(s)
    \/ \E s \in Sessions : ClearRecordingState(s)
    \/ \E s \in Sessions : EmitRecordingStopped(s)

Spec == Init /\ [][Next]_vars

\* the steps monitor recordings without system audio can take
NextCommands ==
    \/ \E c \in StartCalls : StartReadCheck(c)
    \/ \E c \in StartCalls : StartCommit(c)
    \/ \E k \in StopCalls : StopLocked(k)
    \/ \E k \in StopCalls : StopSend(k)
    \/ \E s \in Sessions : SessionSetup(s)
    \/ \E s \in Sessions : SegmentStart(s)
    \/ \E s \in Sessions : PollIteration(s)
    \/ \E s \in Sessions : EncoderExits(s)
    \/ \E s \in Sessions : JoinWorkers(s)
    \/ \E s \in Sessions : FinalizeMonitor(s)
    \/ \E s \in Sessions : ClearRecordingState(s)
    \/ \E s \in Sessions : EmitRecordingStopped(s)

CommandSpec == InitCommands /\ [][NextCommands]_vars

\* the steps of a window recording without system audio
NextWarnings ==
    \/ \E c \in StartCalls : StartReadCheck(c)
    \/ \E c \in StartCalls : StartCommit(c)
    \/ \E k \in StopCalls : StopLocked(k)
    \/ \E k \in StopCalls : StopSend(k)
    \/ \E s \in Sessions : SessionSetup(s)
    \/ \E s \in Sessions : SegmentStart(s)
    \/ \E s \in Sessions : PollIteration(s)
    \/ \E s \in Sessions : EncoderExits(s)
    \/ \E s \in Sessions : JoinWorkers(s)
    \/ \E s \in Sessions : FinalizeBegin(s)
    \/ \E s \in Sessions : FinalizeAttempt(s)
    \/ \E s \in Sessions : FinishFinalization(s)
    \/ \E s \in Sessions : ClearRecordingState(s)
    \/ \E s \in Sessions : EmitRecordingStopped(s)

WarningSpec == InitWarnings /\ [][NextWarnings]_vars

\* a window recording without system audio on a system where an encoder
\* failure can carry the fingerprint of a failed graphics capture
InitFallback ==
    /\ InitProgram
    /\ shell = [starts |-> 1, stops |-> 1, watches_warnings |-> FALSE,
                capture_sources |-> {"Window"}, system_audio |-> {FALSE},
                fingerprints |-> BOOLEAN]

FallbackSpec == InitFallback /\ [][NextWarnings]_vars

\* one window recording without system audio whose final output path holds
\* a file of an earlier recording ("old") when the recording starts
InitOverwrite ==
    /\ state = RecordingStateNew
    /\ session_count = 0
    /\ start_call = [c \in StartCalls |-> StartCallNew]
    /\ stop_call = [k \in StopCalls |-> StopCallNew]
    /\ stop_chan = [s \in Sessions |-> 0]
    /\ session = [s \in Sessions |-> SessionNew]
    /\ segment = [s \in Sessions |-> SegmentNew]
    /\ audio = [s \in Sessions |-> AudioNew]
    /\ files = [s \in Sessions |-> [FilesNew EXCEPT !.final_file = "old"]]
    /\ events = [s \in Sessions |-> EventsNew]
    /\ history = [s \in Sessions |-> HistoryNew]
    /\ pipeline = PipelineNew
    /\ geometry = GeometryNew
    /\ lookup = LookupNew
    /\ shell = [starts |-> 1, stops |-> 1, watches_warnings |-> FALSE,
                capture_sources |-> {"Window"}, system_audio |-> {FALSE},
                fingerprints |-> {FALSE}]

OverwriteSpec == InitOverwrite /\ [][NextWarnings]_vars

\* start_recording reaches resolve_capture_input with any stored settings,
\* while any of the windows exist
InitLookup ==
    /\ InitRecording
    /\ shell = [starts |-> 0, stops |-> 0, watches_warnings |-> FALSE,
                capture_sources |-> {}, system_audio |-> {FALSE},
                fingerprints |-> {FALSE}]
    /\ pipeline = PipelineNew
    /\ geometry = GeometryNew
    /\ \E capture_source \in {"monitor", "window", "display"},
          hwnd \in {None} \cup {Some(v) : v \in Strings(HandleChars)},
          title \in {None} \cup {Some(v) : v \in Strings(TitleChars)},
          list_ok \in BOOLEAN,
          available_windows \in SubSequences(CaptureWindows) :
         lookup = [pc |-> "called", capture_source |-> capture_source,
                   capture_window_hwnd |-> hwnd, capture_window_title |-> title,
                   list_ok |-> list_ok, available_windows |-> available_windows,
                   result |-> None]

LookupSpec == InitLookup /\ [][ResolveCaptureInput]_vars

\* a call of one of the functions that compute capture dimensions, with any
\* 32-bit value, any monitor and any client rectangle
InitGeometry ==
    /\ InitRecording
    /\ shell = [starts |-> 0, stops |-> 0, watches_warnings |-> FALSE,
                capture_sources |-> {}, system_audio |-> {FALSE},
                fingerprints |-> {FALSE}]
    /\ pipeline = PipelineNew
    /\ lookup = LookupNew
    /\ \/ \E value \in 0..MaxU32 :
            geometry = [pc |-> "normalize", value |-> value, result |-> 0]
       \/ \E api_ok \in BOOLEAN, rcMonitor \in Monitors, client_rect \in ClientRects :
            geometry = [pc |-> "region", api_ok |-> api_ok, rcMonitor |-> rcMonitor,
                        client_rect |-> client_rect, result |-> [ok |-> FALSE]]
       \/ \E capture_input \in {"Monitor", "Window"}, api_ok \in BOOLEAN,
             rcMonitor \in Monitors, client_rect \in ClientRects,
             availability \in Availabilities :
            geometry = [pc |-> "dimensions", capture_input |-> capture_input,
                        api_ok |-> api_ok, rcMonitor |-> rcMonitor,
                        client_rect |-> client_rect, availability |-> availability,
                        result |-> <<0, 0>>]

NextGeometry ==
    \/ NormalizeDimension
    \/ ResolveRegion
    \/ ResolveDimensions

GeometrySpec == InitGeometry /\ [][NextGeometry]_vars

\* the two audio workers of one segment, started with an empty queue
InitAudio ==
    /\ InitRecording
    /\ shell = [starts |-> 0, stops |-> 0, watches_warnings |-> FALSE,
                capture_sources |-> {}, system_audio |-> {TRUE},
                fingerprints |-> {FALSE}]
    /\ pipeline = [PipelineNew EXCEPT !.capture = "loop", !.writer = "loop"]
    /\ geometry = GeometryNew
    /\ lookup = LookupNew

NextAudio ==
    \/ AudioReadPacket
    \/ AudioTrySend
    \/ AudioCountQueued
    \/ AudioCaptureStops
    \/ AudioRecv
    \/ AudioCountDequeued
    \/ AudioWriterStops

AudioSpec == InitAudio /\ [][NextAudio]_vars

\* the scheduler runs every thread that can take a step: the async runtime
\* resumes stop_recording after the lock is released, the session thread and
\* the audio workers are OS threads; a poll iteration after the stop timeout
\* sees it elapsed. The encoder child and the render device are not scheduled
\* by the program: no fairness on EncoderExits, DeviceFails, or on the
\* commands of the UI shell
Fairness ==
    /\ \A k \in StopCalls : WF_vars(StopSend(k))
    /\ \A s \in Sessions :
         /\ WF_vars(SessionSetup(s) \/ SegmentStart(s) \/ PollStep(s, TRUE, FALSE)
                    \/ JoinWorkers(s) \/ FinalizeBegin(s) \/ FinalizeAttempt(s)
                    \/ FinishFinalization(s) \/ FinalizeMonitor(s)
                    \/ ClearRecordingState(s) \/ EmitRecordingStopped(s))
         /\ WF_vars(CaptureIteration(s))
         /\ WF_vars(WriterIteration(s))

FairSpec == Init /\ [][Next]_vars /\ Fairness

(* ------------------------------ claims --------------------------------- *)
\* the session's registration is in RecordingState: from start_recording's
\* write-locked block to clear_recording_state
Registered(s) == session[s].pc \notin {"none", "emit_stopped", "done"}

Ended(s) == session[s].pc = "done"

\* two start_recording calls that both passed the first check while no
\* session was recording or stopping, the second before the first registered
ConcurrentStarts(c, e) ==
    /\ c # e
    /\ start_call[c].epoch >= 0
    /\ start_call[c].epoch = start_call[e].epoch

\* C1, as stated: of two concurrent start_recording calls with valid
\* settings issued while nothing records, never both return Ok
C1_NeverBothSucceed ==
    \A c \in StartCalls, e \in StartCalls :
        ConcurrentStarts(c, e) =>
            ~(start_call[c].pc = "ok" /\ start_call[e].pc = "ok")

\* C1, amended: at no time two sessions are registered; of two concurrent
\* calls both return Ok only when the session of the first had ended and
\* cleared RecordingState before the write-locked check of the second
C1_OneRegisteredSession ==
    /\ \A s \in Sessions, r \in Sessions :
           s # r => ~(Registered(s) /\ Registered(r))
    /\ \A c \in StartCalls, e \in StartCalls :
           (ConcurrentStarts(c, e) /\ start_call[c].pc = "ok"
                /\ start_call[e].pc = "ok"
                /\ start_call[c].session < start_call[e].session)
           => ~Registered(start_call[c].session)

\* two concurrent calls have returned, one Ok and one with the error of the
\* write-locked check, while the session of the first is registered
C1_Witness ==
    \E c \in StartCalls, e \in StartCalls :
        /\ ConcurrentStarts(c, e)
        /\ start_call[c].pc = "ok"
        /\ start_call[e].pc = "err_busy"
        /\ Registered(start_call[c].session)

\* C2: after stop_recording returned Ok during a session, recording-stopped
\* is eventually emitted for that session, here even granted that try_wait
\* on the encoder child never fails
C2_StopLeadsToStopped ==
    \A k \in StopCalls : \A s \in Sessions :
        (stop_call[k].pc = "done" /\ stop_call[k].result = "ok"
            /\ stop_call[k].path = s)
        ~> (events[s].stopped >= 1 \/ segment[s].wait_failed)

\* C3: every stop_recording call made while is_recording is true returns Ok
\* with the output path of the recording session; per session at most one
\* call sends a stop signal, at most one changes RecordingState, and at most
\* one recording-stopped is emitted
C3_StopIdempotent ==
    /\ \A k \in StopCalls :
           (stop_call[k].pc = "done" /\ stop_call[k].during # NoSession) =>
               /\ stop_call[k].result = "ok"
               /\ stop_call[k].path = stop_call[k].during
    /\ \A s \in Sessions :
           /\ history[s].stop_signals_sent <= 1
           /\ history[s].stop_state_changes <= 1
           /\ events[s].stopped <= 1

\* two stop_recording calls of one session have returned Ok, the first
\* having sent the signal
C3_Witness ==
    \E k \in StopCalls, j \in StopCalls :
        /\ k # j
        /\ stop_call[k].pc = "done" /\ stop_call[k].result = "ok"
        /\ stop_call[j].pc = "done" /\ stop_call[j].result = "ok"
        /\ stop_call[k].during = stop_call[j].during
        /\ history[stop_call[k].during].stop_signals_sent = 1

\* the session thread ended without calling the finalizer or checking the
\* final file: the workspace could not be created
EndedOnWorkspaceFailure(s) ==
    /\ session[s].capture_input = "Window"
    /\ ~session[s].has_workspace

\* C4, as stated: every session thread emits recording-stopped exactly once,
\* as its last event, after finalization has been attempted
C4_StoppedOnceAfterFinalization ==
    \A s \in Sessions :
        /\ ~Ended(s) => events[s].stopped = 0
        /\ Ended(s) =>
              /\ events[s].stopped = 1
              /\ events[s].last_event = "stopped"
              /\ events[s].finalized <= 1
              /\ session[s].finalize_result # "none"

\* C4, amended: every session thread emits recording-stopped exactly once,
\* as its last event; finalization has been attempted before, except when
\* the workspace could not be created, where nothing is finalized
C4_StoppedOnceLast ==
    \A s \in Sessions :
        /\ ~Ended(s) => events[s].stopped = 0
        /\ Ended(s) =>
              /\ events[s].stopped = 1
              /\ events[s].last_event = "stopped"
              /\ events[s].finalized <= 1
              /\ session[s].finalize_result = "none" <=> EndedOnWorkspaceFailure(s)

\* a session with a workspace ended: recording-finalized, then
\* recording-stopped
C4_Witness ==
    \E s \in Sessions :
        /\ Ended(s)
        /\ session[s].has_workspace
        /\ events[s].finalized = 1
        /\ events[s].last_event = "stopped"

\* C5: after a session has ended, the file at its final output path is
\* absent or has non-zero size
C5_FinalFileNeverEmpty ==
    \A s \in Sessions : Ended(s) => files[s].final_file # "empty"

\* C6: recording-finalized is emitted for a session if and only if a
\* non-empty file is at the final output path when the session ends
C6_FinalizedIffNonEmpty ==
    \A s \in Sessions :
        Ended(s) => (events[s].finalized >= 1 <=> files[s].final_file = "nonempty")

\* C7: once a session thread is past clear_recording_state, and so when it
\* emits recording-stopped, RecordingState is cleared in all four fields;
\* recording-finalized is not emitted when finalization failed
C7_ClearedBeforeStopped ==
    \A s \in Sessions :
        /\ (session[s].pc = "emit_stopped" \/ events[s].stopped >= 1) =>
               state = RecordingStateNew
        /\ session[s].finalize_result = "err" => events[s].finalized = 0

\* a session whose whole recovery ladder failed is about to emit
\* recording-stopped
C7_Witness ==
    \E s \in Sessions :
        /\ session[s].pc = "emit_stopped"
        /\ session[s].finalize_result = "err"
        /\ Len(session[s].valid_segment_paths) >= 2
        /\ session[s].finalize_attempt =
               Len(LadderCandidates(session[s].valid_segment_paths))

\* C8, as stated: when recording-stopped is emitted for a session that
\* created a workspace, the workspace directory no longer exists
C8_WorkspaceAbsent ==
    \A s \in Sessions :
        (events[s].stopped >= 1 /\ session[s].has_workspace) =>
            files[s].workspace # "exists"

\* C8, amended: when recording-stopped is emitted for a session that created
\* a workspace, the removal of the workspace has been attempted, whatever
\* the outcome of finalization; the directory is left only when the removal
\* failed
C8_WorkspaceCleanupAttempted ==
    \A s \in Sessions :
        (events[s].stopped >= 1 /\ session[s].has_workspace) =>
            /\ files[s].cleanup_attempted
            /\ files[s].workspace \in {"removed", "exists"}

\* recording-stopped was emitted after a failed finalization and the
\* workspace is removed
C8_Witness ==
    \E s \in Sessions :
        /\ events[s].stopped >= 1
        /\ session[s].has_workspace
        /\ session[s].finalize_result = "err"
        /\ files[s].workspace = "removed"

\* C9: in every reachable RecordingState is_stopping implies is_recording
C9_StoppingImpliesRecording == state.is_stopping => state.is_recording

\* a session is stopping while a start_recording call that passed the first
\* check has yet to take the write lock
C9_Witness ==
    /\ state.is_stopping
    /\ \E c \in StartCalls : start_call[c].pc = "checked"

\* C10, as stated: stop_tx is present if and only if a session thread is
\* alive
C10_StopTxIffThreadAlive ==
    state.stop_tx # NoSession <=> \E s \in Sessions : ThreadAlive(s)

\* C10, amended: stop_tx is present exactly while a session records and no
\* stop has been accepted; while present it belongs to the registered
\* session, whose thread has not finished
C10_StopTxWhileRecordingNotStopping ==
    /\ state.stop_tx # NoSession <=> (state.is_recording /\ ~state.is_stopping)
    /\ state.stop_tx # NoSession =>
           /\ state.stop_tx = state.current_output_path
           /\ Registered(state.stop_tx)

\* a stop was accepted: stop_tx is taken while the session thread is alive
C10_Witness ==
    /\ state.is_stopping
    /\ state.stop_tx = NoSession
    /\ \E s \in Sessions : ThreadAlive(s) /\ state.current_output_path = s

C13_WindowAfterResolution ==
    [][\A s \in Sessions :
         (session[s].runtime_capture_mode = "Black"
            /\ session'[s].runtime_capture_mode = "Window")
           => segment[s].requested_transition = "Window"
      ]_vars

\* C14: over a whole window session no warning or warning-cleared event is
\* emitted while the availability has not changed since the previous
\* emission, and no availability tick observes a change without emitting
C14_OneEmissionPerChange ==
    \A s \in Sessions :
      ~history[s].duplicate_emission /\ ~history[s].missed_change

WarnsAfterCleared(s) ==
    /\ history[s].cleared_pending
    /\ ~history'[s].cleared_pending
    /\ \/ session'[s].runtime_capture_mode = session[s].runtime_capture_mode
       \/ session[s].pc = "segment"

C16_CountersBalance ==
    pipeline.dequeued_chunks + pipeline.dropped_chunks <= pipeline.queued_chunks

\* C17: once the stop signal of the audio capture worker has been sent, the
\* worker eventually returns, whatever the render device does
C17_CaptureStopsOnSignal ==
    \A s \in Sessions :
      (audio[s].capture = "running" /\ audio[s].capture_stop)
         ~> (audio[s].capture # "running")

\* C18: when finalize_segmented_recording has returned an error, the file
\* that was at the final output path before the call is still there,
\* unmodified
C18_ExistingOutputKeptOnError ==
    \A s \in Sessions :
      (session[s].has_workspace /\ session[s].finalize_result = "err")
         => files[s].final_file = "old"

\* a step by which start_recording call c returns an error
StartFails(c) ==
    /\ start_call[c].pc \notin {"err_busy", "err_setup"}
    /\ start_call'[c].pc \in {"err_busy", "err_setup"}

\* C19: a start_recording call that returns an error leaves RecordingState
\* as it was, registers and spawns no session, and emits no event
C19_FailedStartChangesNothing ==
    [][\A c \in StartCalls :
         StartFails(c) =>
           /\ state' = state
           /\ session_count' = session_count
           /\ session' = session
           /\ stop_chan' = stop_chan
           /\ events' = events
           /\ start_call'[c].session = NoSession
      ]_vars

C19_Witness ==
    \E c \in StartCalls, e \in StartCalls :
      /\ start_call[c].pc = "err_busy"
      /\ start_call[c].epoch = 0
      /\ start_call[e].pc = "ok"
      /\ state.is_recording
      /\ state.stop_tx = start_call[e].session

\* a stored setting that is absent, empty or made of blanks
Blank(value) ==
    value = None \/ \A i \in 1..Len(value[1]) : value[1][i] = " "

\* the stored handle names a window of the list
HandleMatches ==
    /\ ~Blank(lookup.capture_window_hwnd)
    /\ \E i \in 1..Len(lookup.available_windows) :
         lookup.available_windows[i].hwnd = Trim(lookup.capture_window_hwnd[1])

\* the stored title names a window of the list
TitleMatches ==
    /\ ~Blank(lookup.capture_window_title)
    /\ \E i \in 1..Len(lookup.available_windows) :
         lookup.available_windows[i].title = Trim(lookup.capture_window_title[1])

\* C20 as stated: for the source "window", resolve_capture_input returns an
\* error whenever neither the stored handle nor the stored title matches a
\* window of the current list
C20_ErrorUnlessMatch ==
    (lookup.pc = "returned" /\ lookup.capture_source = "window"
       /\ ~HandleMatches /\ ~TitleMatches)
      => ~lookup.result.ok

\* C20: for the source "window", resolve_capture_input returns an error
\* exactly when handle and title are both absent or blank, when the window
\* list cannot be obtained, or when the handle matches no window and no
\* title is stored; a stored title that matches no window is not an error
C20_ErrorIffNothingToResolve ==
    (lookup.pc = "returned" /\ lookup.capture_source = "window")
      => (~lookup.result.ok <=>
            \/ Blank(lookup.capture_window_hwnd) /\ Blank(lookup.capture_window_title)
            \/ ~lookup.list_ok
            \/ /\ ~HandleMatches
               /\ ~Blank(lookup.capture_window_hwnd)
               /\ Blank(lookup.capture_window_title))

C20_Witness ==
    /\ lookup.pc = "returned"
    /\ lookup.capture_source = "window"
    /\ lookup.capture_window_hwnd = Some(<<>>)
    /\ lookup.capture_window_title = Some(<<" ", " ">>)
    /\ lookup.list_ok
    /\ Len(lookup.available_windows) = 3
    /\ ~lookup.result.ok

\* C21: a capture_source other than "monitor" and "window" makes
\* resolve_capture_input, and with it start_recording, return an error
C21_UnknownSourceIsError ==
    (lookup.pc = "returned" /\ lookup.capture_source \notin {"monitor", "window"})
      => ~lookup.result.ok

\* a dimension the encoder accepts
EvenAtLeastTwo(n) == n >= 2 /\ n % 2 = 0

\* C22: normalize_capture_dimension returns an even value >= 2 for every
\* 32-bit input, and so does every branch of resolve_capture_dimensions
C22_DimensionsEvenAtLeastTwo ==
    /\ geometry.pc = "normalized"
         => EvenAtLeastTwo(geometry.result) /\ geometry.result <= MaxU32
    /\ geometry.pc = "dimensions_resolved"
         => EvenAtLeastTwo(geometry.result[1]) /\ EvenAtLeastTwo(geometry.result[2])

C22_Witness ==
    /\ geometry.pc = "normalized"
    /\ geometry.value = MaxU32
    /\ geometry.result >= MaxU32 - 1

\* C23: a region returned by resolve_window_capture_region has even width and
\* height >= 2 and lies within the monitor it was derived from
C23_RegionWithinMonitor ==
    (geometry.pc = "region_resolved" /\ geometry.result.ok)
      => LET r == geometry.result
             m == geometry.rcMonitor
         IN  /\ EvenAtLeastTwo(r.width) /\ EvenAtLeastTwo(r.height)
             /\ r.offset_x >= 0 /\ r.offset_y >= 0
             /\ r.offset_x + r.width <= m.right - m.left
             /\ r.offset_y + r.height <= m.bottom - m.top

\* C24: a segment during which the user's stop signal was sent while its
\* encoder child was running returns the transition Stop: the driver starts
\* no further segment, also when a Switch was recorded before the stop
C24_StopWinsOverSwitch ==
    [][\A s \in Sessions :
         (session[s].pc = "join" /\ session'[s].pc # "join"
            /\ history[s].stop_sent_while_running)
           => session'[s].pc = "finalize"
      ]_vars

\* C25: once a graceful stop has been requested in a segment, the poll loop
\* eventually exits and the segment runner returns its result to the driver
C25_StopRequestEndsSegment ==
    \A s \in Sessions :
      (session[s].pc = "poll" /\ segment[s].stop_requested_at)
         ~> (session[s].pc \notin {"poll", "join"})

\* a step by which run_ffmpeg_recording_segment returns after it spawned a
\* child
SegmentReturns(s) == session[s].pc = "join" /\ session'[s].pc # "join"

\* C26 as stated: when run_ffmpeg_recording_segment returns, the exit status
\* of the child it spawned has been collected, by try_wait or by wait
C26_ChildStatusCollected ==
    [][\A s \in Sessions :
         SegmentReturns(s) => history'[s].child_awaited \in {"try_wait", "wait"}
      ]_vars

\* C26: when run_ffmpeg_recording_segment returns, the exit status of its
\* child has been collected by try_wait, or try_wait failed and the child
\* was killed and waited for; that wait can fail, which is only logged
C26_ChildAwaitedOrWaitFailed ==
    [][\A s \in Sessions :
         SegmentReturns(s) =>
           /\ ~segment[s].wait_failed => history'[s].child_awaited = "try_wait"
           /\ segment[s].wait_failed
                => history'[s].child_awaited \in {"wait", "wait_error"}
      ]_vars

C26_Witness ==
    \E s \in Sessions :
      /\ history[s].child_awaited = "wait"
      /\ session[s].pc = "finalize"

\* C27: a segment returns its result only when the stderr reader, the capture
\* worker and the writer worker of that segment have ended, so the driver
\* starts the next segment or the finalization with no worker still running
C27_WorkersJoinedAtReturn ==
    [][\A s \in Sessions :
         SegmentReturns(s) =>
           /\ StderrReaderDone(s)
           /\ audio[s].capture # "running"
           /\ audio[s].writer \notin {"accepting", "writing"}
           /\ audio'[s].capture # "running"
           /\ audio'[s].writer \notin {"accepting", "writing"}
      ]_vars

\* a segment that ran with audio has returned: its workers ended, and the
\* driver is about to start the next segment or the finalization
C27_Witness ==
    \E s \in Sessions :
      /\ session[s].include_system_audio
      /\ history[s].child_awaited # "none"
      /\ session[s].pc \in {"segment", "finalize"}
      /\ audio[s].capture = "none"
      /\ audio[s].writer = "none"

\* C28: a chunk whose write timed out is not lost: unless the writer ended
\* with a fatal write error, every chunk it dequeued has been written in full
C28_TimedOutChunkDelivered ==
    (pipeline.writer # "got" /\ ~pipeline.write_error)
       => pipeline.written_chunks = pipeline.dequeued_chunks

\* C29: the audio queue never holds more than its capacity; the capture
\* worker counts a dropped chunk only when the queue is full at the enqueue
\* attempt, the dropped chunk leaves the sample queue whole and no part of it
\* enters the queue; a chunk the main loop enqueues has exactly the chunk size
C29_DropsWholeChunksWhenFull ==
    [][/\ Len(pipeline'.queue) <= MaxQueueLen
       /\ pipeline'.dropped_chunks > pipeline.dropped_chunks =>
             /\ Len(pipeline.queue) = MaxQueueLen
             /\ pipeline'.queue = pipeline.queue
             /\ pipeline'.sample_queue = pipeline.sample_queue - chunk_size_bytes
       /\ pipeline'.capture = "sent" /\ pipeline.capture = "loop" =>
             pipeline'.queue = Append(pipeline.queue, chunk_size_bytes)
      ]_vars

\* the queue is full of chunks of the chunk size, and the capture worker has
\* dropped a chunk
C29_Witness ==
    /\ pipeline.dropped_chunks > 0
    /\ Len(pipeline.queue) = MaxQueueLen
    /\ \A i \in 1..Len(pipeline.queue) : pipeline.queue[i] = chunk_size_bytes

\* a step by which run_ffmpeg_recording_segment returns its result to the
\* driver, after the poll loop or by an early exit
SegmentResultReturned(s) ==
    /\ session[s].pc \in {"segment", "join"}
    /\ session'[s].pc \in {"segment", "finalize"}
    /\ session'[s] # session[s]

\* C30: a session with the monitor as input is always in mode Monitor and
\* its segments never return Switch; a session with a window as input is
\* always in mode Window or Black; a Switch a segment returns names a mode
\* other than the mode that segment ran in
C30_ModeStaysInClassOfInput ==
    [][\A s \in Sessions :
         /\ session'[s].pc \notin {"none", "setup", "done"} =>
               IF session'[s].capture_input = "Monitor"
               THEN session'[s].runtime_capture_mode = "Monitor"
               ELSE session'[s].runtime_capture_mode \in {"Window", "Black"}
         /\ (SegmentResultReturned(s) /\ history'[s].transition = "Switch") =>
               /\ session[s].capture_input = "Window"
               /\ history'[s].next_mode \in {"Window", "Black"}
               /\ history'[s].next_mode # session[s].runtime_capture_mode
      ]_vars

\* a window session now in mode Black, whose last segment returned
\* Switch(Black)
C30_Witness ==
    \E s \in Sessions :
      /\ session[s].capture_input = "Window"
      /\ history[s].transition = "Switch"
      /\ history[s].next_mode = "Black"
      /\ session[s].runtime_capture_mode = "Black"
      /\ session[s].pc = "segment"

\* C31: a session with the monitor as input has no segment workspace and runs
\* one segment: whatever that segment returns, the driver goes on to the
\* finalization and starts no second segment
C31_MonitorRunsOneSegment ==
    [][\A s \in Sessions :
         (session[s].capture_input = "Monitor" /\ session[s].pc \notin {"none", "setup"})
           => /\ ~session'[s].has_workspace
              /\ files'[s].workspace = "none"
              /\ session'[s].segment_index = 0
              /\ SegmentResultReturned(s) => session'[s].pc = "finalize"
      ]_vars

\* a monitor session whose only segment ended by itself with success, and
\* whose driver has left the loop
C31_Witness ==
    \E s \in Sessions :
      /\ session[s].capture_input = "Monitor"
      /\ history[s].transition = "RestartSameMode"
      /\ session[s].pc = "finalize"
      /\ session[s].segment_index = 0

\* the elements of v at the positions in P, in the order of v
RECURSIVE KeepFrom(_, _, _)
KeepFrom(v, P, i) ==
    IF i > Len(v) THEN <<>>
    ELSE (IF i \in P THEN <<v[i]>> ELSE <<>>) \o KeepFrom(v, P, i + 1)

\* the positions (from 1) of the N valid segments that the attempt number a
\* concatenates: all; then, when N > 2, all but one interior position, in
\* increasing order; then the prefixes of length N-1 down to 1; then the
\* suffixes that start after 1 up to N-1 segments
PositionsOfAttempt(n, a) ==
    LET interior == IF n > 2 THEN n - 2 ELSE 0
    IN  IF a = 1 THEN 1..n
        ELSE IF a <= 1 + interior THEN (1..n) \ {a}
        ELSE IF a <= 1 + interior + (n - 1) THEN 1..(n - (a - 1 - interior))
        ELSE (a - 1 - interior - (n - 1) + 1)..n

FallsBack(s) == events'[s].fallback_warnings > events[s].fallback_warnings

\* C33: the fallback from exclusive window capture happens at most once in a
\* session, only after a non-zero exit of a segment that used exclusive
\* window capture; it clears the flag, which is never set again, and without
\* user stop, recorded switch or unavailable window the next segment runs in
\* mode Window
C33_FallbackOnceAfterExclusiveSegment ==
    [][\A s \in Sessions :
         /\ events'[s].fallback_warnings <= 1
         /\ ~session[s].use_exclusive_window_capture
               => ~session'[s].use_exclusive_window_capture
         /\ FallsBack(s) =>
               /\ session[s].pc = "join"
               /\ ~segment[s].wait_failed /\ ~segment[s].exit_ok
               /\ session[s].use_exclusive_window_capture
               /\ ~session'[s].use_exclusive_window_capture
               /\ session[s].runtime_capture_mode = "Window"
               /\ (/\ ~segment[s].stop_requested_by_user
                   /\ segment[s].requested_transition = "none"
                   /\ history'[s].transition = "RestartSameMode")
                    => /\ session'[s].pc = "segment"
                       /\ session'[s].runtime_capture_mode = "Window"
      ]_vars

\* C34: however many times a graceful stop is requested within a segment, the
\* stop bytes are written to the child's stdin at most once, and
\* stop_requested_at keeps the time of the first request
C34_GracefulStopIdempotent ==
    \A s \in Sessions :
      /\ segment[s].stdin_writes <= 1
      /\ segment[s].stdin = "taken" <=> segment[s].stdin_writes = 1
      /\ segment[s].stop_requests >= 1 =>
            /\ segment[s].stop_requested_at
            /\ segment[s].stop_requested_at_call = 1
            /\ segment[s].stdin_writes = 1

\* a segment in which the user stop and then an availability switch both
\* requested the graceful stop
C34_Witness ==
    \E s \in Sessions :
      /\ segment[s].stop_requests = 2
      /\ segment[s].stop_requested_by_user
      /\ segment[s].requested_transition # "none"
      /\ segment[s].stdin_writes = 1

\* C35: after the stop signal has been sent into the session's stop channel
\* the session spawns at most one more encoder child; a segment whose child
\* is spawned after the signal takes the signal in on its first poll
\* iteration and returns the transition Stop
C35_OneChildAfterStopSignal ==
    [][\A s \in Sessions :
         /\ history'[s].children_after_stop <= 1
         /\ ~segment'[s].first_poll_missed_stop
         /\ (SegmentReturns(s) /\ segment[s].spawned_after_stop)
               => history'[s].transition = "Stop"
      ]_vars

\* the segment spawned after the stop signal has returned Stop
C35_Witness ==
    \E s \in Sessions :
      /\ history[s].children_after_stop = 1
      /\ history[s].transition = "Stop"
      /\ session[s].segment_index > 0
      /\ session[s].pc = "finalize"

\* C36: at every instant, under any interleaving of the two audio workers,
\* dequeued_chunks <= queued_chunks, so that queued_chunks - dequeued_chunks
\* is never negative
C36_DequeuedAtMostQueued ==
    pipeline.queued_chunks - pipeline.dequeued_chunks >= 0

\* C37: no start_recording call succeeds between the moment a session clears
\* RecordingState and the moment it emits its recording-stopped, so the
\* event is never emitted after a later session has been started
C37_StoppedBeforeNextStart ==
    \A s \in Sessions :
      session[s].pc = "emit_stopped" =>
        /\ session_count = s
        /\ ~state.is_recording

\* C38: when the encoder child of a segment with audio has exited on its own,
\* without a user stop or a requested switch, the audio workers are signalled
\* after the poll loop and end, so the segment runner returns
C38_RunnerReturnsAfterOwnExit ==
    \A s \in Sessions :
      (/\ session[s].pc = "join"
       /\ session[s].include_system_audio
       /\ segment[s].child = "exited"
       /\ ~segment[s].wait_failed
       /\ ~segment[s].stop_requested_at
       /\ ~segment[s].stop_requested_by_user
       /\ segment[s].requested_transition = "none")
         ~> (session[s].pc # "join")

\* the segment that returns in this step left a non-empty file at its
\* output path
OutputWritten(s) == session[s].pc = "join" /\ segment[s].out_file = "nonempty"

\* C39: in a session with a workspace, when a segment returns, its index is
\* appended to the segment list exactly when its output was written; the
\* next segment gets a larger index than this one and than every listed
\* segment; the list is strictly increasing
C39_SegmentIndexesFresh ==
    [][\A s \in Sessions :
         (session[s].has_workspace /\ SegmentResultReturned(s)) =>
           LET paths == session'[s].segment_paths IN
           /\ paths = IF OutputWritten(s)
                      THEN Append(session[s].segment_paths, session[s].segment_index)
                      ELSE session[s].segment_paths
           /\ session'[s].pc = "segment" =>
                 /\ session'[s].segment_index > session[s].segment_index
                 /\ \A i \in 1..Len(paths) : paths[i] < session'[s].segment_index
           /\ \A i, j \in 1..Len(paths) : i < j => paths[i] < paths[j]
      ]_vars

\* C39 witness: a workspace session has listed two segments and skipped the
\* index of a segment between them, which wrote no output
C39_Witness ==
    \E s \in Sessions :
      /\ session[s].has_workspace
      /\ Len(session[s].segment_paths) >= 2
      /\ session[s].segment_paths[2] > session[s].segment_paths[1] + 1

\* C40 as stated: within one segment the hard kill is attempted at most
\* once and never without a stop request; in the poll loop force_killed
\* implies kill_sent and kill_sent implies a requested stop
C40_KillAtMostOnceAfterStopRequest ==
    [][\A s \in Sessions :
         /\ segment'[s].force_killed => segment'[s].kill_sent
         /\ segment'[s].kill_sent => segment'[s].stop_requested_at
         /\ SegmentReturns(s) =>
               /\ history'[s].kill_attempts <= 1
               /\ history'[s].kill_attempts >= 1 => segment[s].stop_requested_at
      ]_vars

\* C40: in the poll loop the hard kill is attempted at most once and only
\* after a stop request: force_killed implies kill_sent, kill_sent implies
\* a requested stop, and one kill was attempted exactly when kill_sent;
\* after the poll loop one more kill is attempted exactly when try_wait
\* failed, with or without an earlier kill or stop request, and only that
\* kill can set force_killed of the result outside the poll loop
C40_KillOncePerLoopAndAfterWaitFailure ==
    [][\A s \in Sessions :
         /\ segment'[s].force_killed => segment'[s].kill_sent
         /\ segment'[s].kill_sent => segment'[s].stop_requested_at
         /\ segment'[s].kill_attempts = IF segment'[s].kill_sent THEN 1 ELSE 0
         /\ SegmentReturns(s) =>
               /\ history'[s].kill_attempts =
                     segment[s].kill_attempts + (IF segment[s].wait_failed THEN 1 ELSE 0)
               /\ history'[s].kill_attempts <= 2
               /\ (history'[s].force_killed /\ ~segment[s].force_killed) =>
                     segment[s].wait_failed
      ]_vars

\* C40 witness: a segment has returned after two kills of its child, one by
\* the poll loop after the stop timeout and one after try_wait failed
C40_Witness ==
    \E s \in Sessions : history[s].kill_attempts = 2 /\ history[s].force_killed

====
